---- MODULE Spec2Model ----
(***************************************************************************)
(* A model of vlei_verifier_client.py: the VerifierClient facade, the      *)
(* _VerifierServiceAdapter beneath it, the HTTP exchange with the remote   *)
(* verifier service and the trace lines written on the way.                *)
(*                                                                         *)
(* Several callers may be inside a facade method at once; each caller's    *)
(* call advances in the steps of the code: the pre-call log line, the HTTP *)
(* request, the response (or the transport failure), the post-call log     *)
(* line, the construction of the VerifierResponse, the return.             *)
(***************************************************************************)
EXTENDS Naturals, Sequences, FiniteSets

\* ------------------------------------------------------------------ bounds

\* Facade calls started in one behaviour.
MaxCalls == 3

\* Times the remote service changes its state in one behaviour.
MaxRemoteChanges == 1

\* ------------------------------------------------------------------ inputs

\* The callers (threads) that may be inside the client at the same time.
Callers == {"c1", "c2"}

\* Constructor arguments: the default and one other base address.
DefaultBaseUrl == "http://localhost:7676"

BaseUrls == {DefaultBaseUrl, "http://verifier:7677"}

Aids == {"EAbc123", "EAid"}

Saids == {"ESaid1"}

Vleis == {"vlei-data"}

Sigs == {"sig1"}

Sers == {"ser1"}

Digests == {"deadbeef"}

Oobis == {"http://oobi"}

\* ------------------------------------------------------------ JSON values
\* A body travels as text, here the sequence of its JSON tokens.  A parsed
\* value is [type, items]: a dict holds its members <<key, value>> in
\* order, a list its elements <<value>>; type "error" stands for the
\* JSONDecodeError that json() raises on text that is not JSON.

Punctuation == {"{", "}", "[", "]", ":", ","}

JsonDict(items) == [type |-> "dict", items |-> items]

JsonList(items) == [type |-> "list", items |-> items]

JsonError == [type |-> "error", items |-> <<>>]

\* d[k] = v on a dict's members: a present key keeps its place.
RECURSIVE DictSet(_, _, _)
DictSet(items, k, v) ==
    IF items = <<>> THEN << <<k, v>> >>
    ELSE IF Head(items)[1] = k THEN << <<k, v>> >> \o Tail(items)
    ELSE << Head(items) >> \o DictSet(Tail(items), k, v)

\* The members of an object, from the tokens between its braces:
\* key : value (, key : value)*.  <<"error">> when they are not that.
RECURSIVE ParseMembers(_, _)
ParseMembers(toks, acc) ==
    IF Len(toks) < 3 THEN <<"error">>
    ELSE IF toks[1] \in Punctuation \/ toks[2] # ":" \/ toks[3] \in Punctuation
         THEN <<"error">>
    ELSE IF Len(toks) = 3 THEN DictSet(acc, toks[1], toks[3])
    ELSE IF toks[4] # "," THEN <<"error">>
    ELSE ParseMembers(SubSeq(toks, 5, Len(toks)), DictSet(acc, toks[1], toks[3]))

\* The elements of an array, from the tokens between its brackets.
RECURSIVE ParseElements(_, _)
ParseElements(toks, acc) ==
    IF Len(toks) < 1 \/ toks[1] \in Punctuation THEN <<"error">>
    ELSE IF Len(toks) = 1 THEN acc \o << <<toks[1]>> >>
    ELSE IF toks[2] # "," THEN <<"error">>
    ELSE ParseElements(SubSeq(toks, 3, Len(toks)), acc \o << <<toks[1]>> >>)

\* Response.json(): the body text parsed.
json(text) ==
    LET n == Len(text)
        inner == SubSeq(text, 2, n - 1)
    IN  IF n >= 2 /\ text[1] = "{" /\ text[n] = "}"
        THEN IF n = 2 THEN JsonDict(<<>>)
             ELSE LET ms == ParseMembers(inner, <<>>)
                  IN  IF ms = <<"error">> THEN JsonError ELSE JsonDict(ms)
        ELSE IF n >= 2 /\ text[1] = "[" /\ text[n] = "]"
        THEN IF n = 2 THEN JsonList(<<>>)
             ELSE LET es == ParseElements(inner, <<>>)
                  IN  IF es = <<"error">> THEN JsonError ELSE JsonList(es)
        ELSE JsonError

RECURSIVE DumpMembers(_)
DumpMembers(items) ==
    IF items = <<>> THEN <<>>
    ELSE <<Head(items)[1], ":", Head(items)[2]>>
         \o (IF Len(items) > 1 THEN <<",">> ELSE <<>>)
         \o DumpMembers(Tail(items))

RECURSIVE DumpElements(_)
DumpElements(items) ==
    IF items = <<>> THEN <<>>
    ELSE <<Head(items)[1]>>
         \o (IF Len(items) > 1 THEN <<",">> ELSE <<>>)
         \o DumpElements(Tail(items))

\* json.dumps of a parsed value: its text again.
json_dumps(value) ==
    IF value.type = "dict" THEN <<"{">> \o DumpMembers(value.items) \o <<"}">>
    ELSE <<"[">> \o DumpElements(value.items) \o <<"]">>

RECURSIVE DictGet(_, _)
DictGet(items, k) ==
    IF items = <<>> THEN <<>>
    ELSE IF Head(items)[1] = k THEN <<Head(items)[2]>>
    ELSE DictGet(Tail(items), k)

\* Mutant of getitem: value.get(key, ""), a default in place of the error.
getitem_default(value, key) ==
    IF value.type = "dict" /\ DictGet(value.items, key) # <<>>
    THEN [error |-> "", value |-> DictGet(value.items, key)[1]]
    ELSE [error |-> "", value |-> ""]

\* value[key]: the member of a dict, KeyError when the dict has none,
\* TypeError on a list (a list takes no string index).
getitem(value, key) ==
    IF value.type = "dict"
    THEN IF DictGet(value.items, key) = <<>>
         THEN [error |-> "KeyError", value |-> ""]
         ELSE [error |-> "", value |-> DictGet(value.items, key)[1]]
    ELSE [error |-> "TypeError", value |-> ""]

\* --------------------------------------------------------- remote service
\* The verifier service and the network in front of it.  In one state the
\* service answers a request in one way; the body of an accepted request
\* names the URL it was sent to.

RemoteStates == {"ok", "reject", "nomsg", "list", "garbage", "unreachable"}

RemoteRespond(state, req) ==
    CASE state = "ok" ->
           [status_code |-> 200,
            text |-> <<"{", "msg", ":", "ok", ",", "url", ":", req.url, "}">>]
      [] state = "reject" ->
           [status_code |-> 400, text |-> <<"{", "msg", ":", "bad", "}">>]
      [] state = "nomsg" ->
           [status_code |-> 200, text |-> <<"{", "url", ":", req.url, "}">>]
      [] state = "list" ->
           [status_code |-> 200, text |-> <<"[", "msg", "]">>]
      [] OTHER ->
           [status_code |-> 502, text |-> <<"<html>">>]

\* ----------------------------------------------------------------- adapter

\* _VerifierServiceAdapter.__init__
VerifierServiceAdapter(verifier_base_url) ==
    [verifier_base_url |-> verifier_base_url,
     auths_url |-> verifier_base_url \o "/authorizations/",
     presentations_url |-> verifier_base_url \o "/presentations/",
     reports_url |-> verifier_base_url \o "/reports/",
     verify_signed_headers_url |-> verifier_base_url \o "/request/verify/",
     verify_signature_url |-> verifier_base_url \o "/signature/verify/",
     add_rot_url |-> verifier_base_url \o "/root_of_trust/"]

\* Mutant of VerifierClient: the adapter is built without the argument and
\* takes its default.
VerifierClient_default_adapter(verifier_base_url) ==
    [verifier_base_url |-> verifier_base_url,
     verifier_service_adapter |-> VerifierServiceAdapter(DefaultBaseUrl)]

\* VerifierClient.__init__
VerifierClient(verifier_base_url) ==
    [verifier_base_url |-> verifier_base_url,
     verifier_service_adapter |-> VerifierServiceAdapter(verifier_base_url)]

\* An HTTP request as handed to requests.get / put / post: headers, params
\* and json are members <<key, value>>, data is <<>> or <<body>>.
HttpRequest(method, url, headers, data, params, json_members) ==
    [method |-> method, url |-> url, headers |-> headers, data |-> data,
     params |-> params, json |-> json_members]

\* requests.get(...) of check_login_request
check_login_request(self, aid) ==
    HttpRequest("GET", self.auths_url \o aid,
                << <<"Content-Type", "application/json">> >>, <<>>, <<>>, <<>>)

\* requests.put(...) of credential_presentation_request
credential_presentation_request(self, said, vlei) ==
    HttpRequest("PUT", self.presentations_url \o said,
                << <<"Content-Type", "application/json+cesr">> >>,
                <<vlei>>, <<>>, <<>>)

\* Mutant of verify_signed_headers_request: sig and ser change places.
verify_signed_headers_request_swapped(self, aid, sig, ser) ==
    HttpRequest("POST", self.verify_signed_headers_url \o aid, <<>>, <<>>,
                << <<"sig", ser>>, <<"data", sig>> >>, <<>>)

\* requests.post(...) of verify_signed_headers_request
verify_signed_headers_request(self, aid, sig, ser) ==
    HttpRequest("POST", self.verify_signed_headers_url \o aid, <<>>, <<>>,
                << <<"sig", sig>>, <<"data", ser>> >>, <<>>)

\* requests.post(...) of verify_signature_request
verify_signature_request(self, signature, submitter, digest) ==
    HttpRequest("POST", self.verify_signature_url, <<>>, <<>>, <<>>,
                << <<"signature", signature>>, <<"signer_aid", submitter>>,
                   <<"non_prefixed_digest", digest>> >>)

\* requests.post(...) of add_root_of_trust_request
add_root_of_trust_request(self, aid, vlei, oobi) ==
    HttpRequest("POST", self.add_rot_url \o aid,
                << <<"Content-Type", "application/json">> >>, <<>>, <<>>,
                << <<"vlei", vlei>>, <<"oobi", oobi>> >>)

\* The request the adapter method of operation op issues for args.
AdapterRequest(self, op, args) ==
    CASE op = "check_login" -> check_login_request(self, args[1])
      [] op = "login" -> credential_presentation_request(self, args[1], args[2])
      [] op = "verify_signed_headers" ->
           verify_signed_headers_request(self, args[1], args[2], args[3])
      [] op = "verify_signature" ->
           verify_signature_request(self, args[1], args[2], args[3])
      [] OTHER -> add_root_of_trust_request(self, args[1], args[2], args[3])

\* A trace line: the formatted text and, on a post-call line, the body
\* that json.dumps wrote into it.
LogLine(text, payload) == [level |-> "INFO", text |-> text, payload |-> payload]

\* The logger.info(...) before the request, per adapter method.
PreCallLine(op, args) ==
    CASE op = "check_login" ->
           LogLine("Check login request sent with: aid = " \o args[1], <<>>)
      [] op = "login" ->
           LogLine("Credential presentation request sent with: said = "
                   \o args[1], <<>>)
      [] op = "verify_signed_headers" ->
           LogLine("Signed headers verification request sent with aid = "
                   \o args[1] \o ", sig = " \o args[2] \o ", ser = " \o args[3],
                   <<>>)
      [] op = "verify_signature" ->
           LogLine("Signature verification request sent with signature = "
                   \o args[1] \o ", submitter = " \o args[2] \o ", digest = "
                   \o args[3], <<>>)
      [] OTHER ->
           LogLine("Add root of trust request send with: aid = " \o args[1]
                   \o ", vlei = " \o args[2] \o ", oobi = " \o args[3], <<>>)

\* The logger.info(...) after the response, given the parsed body.
PostCallLine(op, args, body) ==
    CASE op = "check_login" -> LogLine("login status: ", json_dumps(body))
      [] op = "login" ->
           LogLine("Credential presentation response for said = " \o args[1]
                   \o ":  ", json_dumps(body))
      [] op = "verify_signed_headers" ->
           LogLine("Signed headers verification response for aid = "
                   \o args[1] \o ", sig = " \o args[2] \o ", ser = " \o args[3]
                   \o ":  ", json_dumps(body))
      [] OTHER ->
           LogLine("Add root of trust response for aid = " \o args[1]
                   \o ", vlei = " \o args[2] \o ", oobi = " \o args[3] \o ":  ",
                   json_dumps(body))

\* verify_signature_request returns the response without a post-call line.
LogsAfterResponse(op) == op # "verify_signature"

\* ------------------------------------------------------------------ facade

\* The result type of src.utils.
VerifierResponse(code, body, message) ==
    [code |-> code, body |-> body, message |-> message]

\* Mutant of facade_response: res.raise_for_status() before the result is
\* built, so that a 4xx or 5xx status raises.
facade_response_raise_for_status(res) ==
    LET body == json(res.text)
        msg == getitem(json(res.text), "msg")
    IN  IF res.status_code >= 400 THEN [error |-> "HTTPError", result |-> <<>>]
        ELSE IF body = JsonError
        THEN [error |-> "JSONDecodeError", result |-> <<>>]
        ELSE IF msg.error # "" THEN [error |-> msg.error, result |-> <<>>]
        ELSE [error |-> "",
              result |-> <<VerifierResponse(res.status_code, body, msg.value)>>]

\* The VerifierResponse(...) a facade method builds from the raw response
\* res: code from the status, body from one json() and message from the
\* "msg" member of a second; a failing json() or ["msg"] raises.
facade_response(res) ==
    LET body == json(res.text)
        msg == getitem(json(res.text), "msg")
    IN  IF body = JsonError
        THEN [error |-> "JSONDecodeError", result |-> <<>>]
        ELSE IF msg.error # "" THEN [error |-> msg.error, result |-> <<>>]
        ELSE [error |-> "",
              result |-> <<VerifierResponse(res.status_code, body, msg.value)>>]

\* ------------------------------------------------------------------- state

VARIABLES
    client,      \* the VerifierClient object and, in it, its adapter
    given,       \* the verifier_base_url the constructor was called with
    calls,       \* per caller: the facade call it is in
    started,     \* facade calls started so far
    requests,    \* HTTP requests handed to the transport so far
    remote,      \* the state of the remote service
    version      \* how often the remote service has changed its state

vars == <<client, given, calls, started, requests, remote, version>>

\* A caller that is in no call.  Of a call: pc is its position, lines the
\* trace lines it has written, reqs the HTTP requests it has issued, res
\* the response the transport gave it (with served_at, the version of the
\* remote state that produced it), ret what the adapter method returned,
\* result what the facade method returned; error and raised_in tell the
\* exception that ended it and where that was raised.
Idle ==
    [pc |-> "idle", op |-> "", args |-> <<>>, lines |-> <<>>, reqs |-> <<>>,
     res |-> <<>>, served_at |-> 0, ret |-> <<>>, result |-> <<>>,
     error |-> "", raised_in |-> ""]

\* The facade method calls its adapter method, whose first statement
\* writes the pre-call line.
Enter(op, args) ==
    [Idle EXCEPT !.pc = "request", !.op = op, !.args = args,
                 !.lines = <<PreCallLine(op, args)>>]

\* requests.get / put / post: the request goes out and the call blocks.
http(c, req) == [c EXCEPT !.reqs = Append(@, req), !.pc = "wait"]

\* Mutant of propagate: the exception is caught and logged, and a result
\* made up from it is returned.
propagate_suppressed(c, error, where) ==
    [c EXCEPT !.pc = "returned",
              !.result = <<VerifierResponse(0, JsonDict(<<>>), error)>>]

\* Mutant of propagate: the exception is caught and the request made again.
propagate_retried(c, error, where) == [c EXCEPT !.pc = "request"]

\* No method catches anything: an exception ends the call at its caller.
propagate(c, error, where) ==
    [c EXCEPT !.pc = "raised", !.error = error, !.raised_in = where]

\* The transport hands the response to the adapter method, which either
\* goes on to its post-call line or (verify_signature_request) returns.
receive(c, response, v) ==
    [c EXCEPT !.res = <<response>>, !.served_at = v,
              !.ret = IF LogsAfterResponse(c.op) THEN <<>> ELSE <<response>>,
              !.pc = IF LogsAfterResponse(c.op) THEN "log_post" ELSE "normalize"]

\* logger.info(f"...{json.dumps(res.json())}") and return res.
log_post(c) ==
    LET body == json(c.res[1].text)
    IN  IF body = JsonError THEN propagate(c, "JSONDecodeError", "adapter")
        ELSE [c EXCEPT !.lines = Append(@, PostCallLine(c.op, c.args, body)),
                       !.ret = c.res, !.pc = "normalize"]

\* Mutant of local_res: the response is kept in a field of the client, so
\* that a call may read the one another call has put there.
local_res_shared(cs, t) ==
    LET others == {u \in DOMAIN cs : u # t /\ cs[u].ret # <<>>}
    IN  IF others # {} THEN cs[CHOOSE u \in others : TRUE].ret[1]
        ELSE cs[t].ret[1]

\* The facade method's local res: what its adapter call returned.
local_res(cs, t) == cs[t].ret[1]

Init ==
    /\ given \in BaseUrls
    /\ client = VerifierClient(given)
    /\ calls = [t \in Callers |-> Idle]
    /\ started = 0
    /\ requests = 0
    /\ remote \in RemoteStates
    /\ version = 0

\* A facade method is entered by an idle caller: it calls its adapter
\* method, which writes the pre-call line.

check_login(t, aid) ==
    /\ calls[t].pc = "idle"
    /\ started < MaxCalls
    /\ calls' = [calls EXCEPT ![t] = Enter("check_login", <<aid>>)]
    /\ started' = started + 1
    /\ UNCHANGED <<client, given, requests, remote, version>>

login(t, said, vlei) ==
    /\ calls[t].pc = "idle"
    /\ started < MaxCalls
    /\ calls' = [calls EXCEPT ![t] = Enter("login", <<said, vlei>>)]
    /\ started' = started + 1
    /\ UNCHANGED <<client, given, requests, remote, version>>

verify_signed_headers(t, aid, sig, ser) ==
    /\ calls[t].pc = "idle"
    /\ started < MaxCalls
    /\ calls' = [calls EXCEPT ![t] =
                   Enter("verify_signed_headers", <<aid, sig, ser>>)]
    /\ started' = started + 1
    /\ UNCHANGED <<client, given, requests, remote, version>>

add_root_of_trust(t, aid, vlei, oobi) ==
    /\ calls[t].pc = "idle"
    /\ started < MaxCalls
    /\ calls' = [calls EXCEPT ![t] =
                   Enter("add_root_of_trust", <<aid, vlei, oobi>>)]
    /\ started' = started + 1
    /\ UNCHANGED <<client, given, requests, remote, version>>

verify_signature(t, signature, signer_aid, non_prefixed_digest) ==
    /\ calls[t].pc = "idle"
    /\ started < MaxCalls
    /\ calls' = [calls EXCEPT ![t] =
                   Enter("verify_signature",
                         <<signature, signer_aid, non_prefixed_digest>>)]
    /\ started' = started + 1
    /\ UNCHANGED <<client, given, requests, remote, version>>

\* Mutant of SendRequest: check_login answers from the result another
\* caller holds for the same argument and issues no request.
SendRequest_memoized(t) ==
    /\ calls[t].pc = "request"
    /\ LET hits == {u \in Callers \ {t} :
                      /\ calls[u].op = "check_login"
                      /\ calls[t].op = "check_login"
                      /\ calls[u].args = calls[t].args
                      /\ calls[u].result # <<>>}
       IN  IF hits # {}
           THEN LET h == calls[CHOOSE u \in hits : TRUE]
                IN  /\ calls' = [calls EXCEPT ![t] =
                                   [@ EXCEPT !.pc = "returned", !.res = h.res,
                                             !.ret = h.ret, !.result = h.result,
                                             !.served_at = version]]
                    /\ requests' = requests
           ELSE /\ calls' = [calls EXCEPT ![t] =
                               http(@, AdapterRequest(
                                         client.verifier_service_adapter,
                                         @.op, @.args))]
                /\ requests' = requests + 1
    /\ UNCHANGED <<client, given, started, remote, version>>

\* The adapter method issues its HTTP request.
SendRequest(t) ==
    /\ calls[t].pc = "request"
    /\ calls' = [calls EXCEPT ![t] =
                   http(@, AdapterRequest(client.verifier_service_adapter,
                                          @.op, @.args))]
    /\ requests' = requests + 1
    /\ UNCHANGED <<client, given, started, remote, version>>

\* The remote service answers the request of caller t.
ReceiveResponse(t) ==
    /\ calls[t].pc = "wait"
    /\ remote # "unreachable"
    /\ calls' = [calls EXCEPT ![t] =
                   receive(@, RemoteRespond(remote, @.reqs[Len(@.reqs)]), version)]
    /\ UNCHANGED <<client, given, started, requests, remote, version>>

\* The network call cannot complete: requests raises ConnectionError.
TransportFailure(t) ==
    /\ calls[t].pc = "wait"
    /\ remote = "unreachable"
    /\ calls' = [calls EXCEPT ![t] = propagate(@, "ConnectionError", "transport")]
    /\ UNCHANGED <<client, given, started, requests, remote, version>>

\* The adapter method writes its post-call line and returns the response.
LogPost(t) ==
    /\ calls[t].pc = "log_post"
    /\ calls' = [calls EXCEPT ![t] = log_post(@)]
    /\ UNCHANGED <<client, given, started, requests, remote, version>>

\* The facade method builds the VerifierResponse and returns it.
BuildResponse(t) ==
    /\ calls[t].pc = "normalize"
    /\ LET r == facade_response(local_res(calls, t))
       IN  calls' = [calls EXCEPT ![t] =
                       IF r.error # "" THEN propagate(@, r.error, "facade")
                       ELSE [@ EXCEPT !.pc = "returned", !.result = r.result]]
    /\ UNCHANGED <<client, given, started, requests, remote, version>>

\* The caller has its result or its exception and leaves the call.
Leave(t) ==
    /\ calls[t].pc \in {"returned", "raised"}
    /\ calls' = [calls EXCEPT ![t] = Idle]
    /\ UNCHANGED <<client, given, started, requests, remote, version>>

\* The remote service changes its state (a login, a restart, an outage).
RemoteChange ==
    /\ version < MaxRemoteChanges
    /\ remote' \in RemoteStates \ {remote}
    /\ version' = version + 1
    /\ UNCHANGED <<client, given, calls, started, requests>>

Next ==
    \/ \E t \in Callers, aid \in Aids : check_login(t, aid)
    \/ \E t \in Callers, said \in Saids, vlei \in Vleis : login(t, said, vlei)
    \/ \E t \in Callers, sig \in Sigs, ser \in Sers :
         verify_signed_headers(t, "EAid", sig, ser)
    \/ \E t \in Callers, sig \in Sigs, digest \in Digests :
         verify_signature(t, sig, "EAid", digest)
    \/ \E t \in Callers, vlei \in Vleis, oobi \in Oobis :
         add_root_of_trust(t, "EAid", vlei, oobi)
    \/ \E t \in Callers : SendRequest(t)
    \/ \E t \in Callers : ReceiveResponse(t)
    \/ \E t \in Callers : TransportFailure(t)
    \/ \E t \in Callers : LogPost(t)
    \/ \E t \in Callers : BuildResponse(t)
    \/ \E t \in Callers : Leave(t)
    \/ RemoteChange

Spec == Init /\ [][Next]_vars

\* ------------------------------------------------------------------ claims

Terminal(c) == c.pc \in {"returned", "raised"}

\* The adapter method of the call is over: it returned or it raised.
BindingDone(c) == c.pc \in {"normalize", "returned", "raised"}

\* The body text is a JSON object (read off the tokens).
IsMapping(text) ==
    Len(text) >= 2 /\ text[1] = "{" /\ text[Len(text)] = "}"

\* The places of the object's "msg" key.
MsgAt(text) ==
    {i \in 2..(Len(text) - 2) : i % 4 = 2 /\ text[i] = "msg" /\ text[i + 1] = ":"}

HasMsg(text) == IsMapping(text) /\ MsgAt(text) # {}

MsgValue(text) == text[(CHOOSE i \in MsgAt(text) : TRUE) + 2]

\* The wire table: method, URL and payload per operation and arguments.
WireTable(base, op, args) ==
    CASE op = "check_login" ->
           [method |-> "GET", url |-> base \o "/authorizations/" \o args[1],
            data |-> <<>>, params |-> <<>>, json |-> <<>>]
      [] op = "login" ->
           [method |-> "PUT", url |-> base \o "/presentations/" \o args[1],
            data |-> <<args[2]>>, params |-> <<>>, json |-> <<>>]
      [] op = "verify_signed_headers" ->
           [method |-> "POST", url |-> base \o "/request/verify/" \o args[1],
            data |-> <<>>,
            params |-> << <<"sig", args[2]>>, <<"data", args[3]>> >>,
            json |-> <<>>]
      [] op = "verify_signature" ->
           [method |-> "POST", url |-> base \o "/signature/verify/",
            data |-> <<>>, params |-> <<>>,
            json |-> << <<"signature", args[1]>>, <<"signer_aid", args[2]>>,
                        <<"non_prefixed_digest", args[3]>> >>]
      [] OTHER ->
           [method |-> "POST", url |-> base \o "/root_of_trust/" \o args[1],
            data |-> <<>>, params |-> <<>>,
            json |-> << <<"vlei", args[2]>>, <<"oobi", args[3]>> >>]

\* Method, URL and payload of a request.
Wire(req) ==
    [method |-> req.method, url |-> req.url, data |-> req.data,
     params |-> req.params, json |-> req.json]

\* C1: whatever the operation and whatever the status, a call whose
\* response body is a JSON mapping with "msg" returns normally, with code
\* the response's status, body the parsed body (it serialises back to the
\* text received) and message the body's "msg".
C1_MsgBodyReturnsNormalizedResult ==
    \A t \in Callers :
        LET c == calls[t]
        IN  (Terminal(c) /\ c.res # <<>> /\ HasMsg(c.res[1].text)) =>
                /\ c.pc = "returned"
                /\ c.error = ""
                /\ Len(c.result) = 1
                /\ c.result[1].code = c.res[1].status_code
                /\ c.result[1].body.type = "dict"
                /\ json_dumps(c.result[1].body) = c.res[1].text
                /\ c.result[1].message = MsgValue(c.res[1].text)

\* A verify_signature call has returned normally on a 400 response.
C1_Witness ==
    \E t \in Callers :
        /\ calls[t].op = "verify_signature"
        /\ calls[t].pc = "returned"
        /\ calls[t].result[1].code = 400
        /\ calls[t].result[1].message = "bad"

\* C2: a call whose response body has no "msg" fails and returns no
\* result, and every result returned has its message from the body's "msg".
C2_NoMsgFails ==
    \A t \in Callers :
        LET c == calls[t]
        IN  /\ (Terminal(c) /\ c.res # <<>> /\ ~HasMsg(c.res[1].text)) =>
                  (c.pc = "raised" /\ c.result = <<>> /\ c.error # "")
            /\ c.result # <<>> =>
                  /\ c.res # <<>>
                  /\ HasMsg(c.res[1].text)
                  /\ c.result[1].message = MsgValue(c.res[1].text)

\* A verify_signature call has failed on a 200 response without "msg".
C2_Witness ==
    \E t \in Callers :
        /\ calls[t].op = "verify_signature"
        /\ calls[t].pc = "raised"
        /\ calls[t].error = "KeyError"
        /\ calls[t].res # <<>>
        /\ calls[t].res[1].status_code = 200

\* C3: a call whose request got no response has issued that one request
\* and no other, is waiting or has failed, and when it has failed it has
\* failed with the transport's error at its caller, without a result.
C3_TransportFailurePropagates ==
    \A t \in Callers :
        LET c == calls[t]
        IN  (c.reqs # <<>> /\ c.res = <<>>) =>
                /\ Len(c.reqs) = 1
                /\ c.pc \in {"wait", "raised"}
                /\ c.result = <<>>
                /\ c.pc = "raised" =>
                      (c.error = "ConnectionError" /\ c.raised_in = "transport")

\* Each of two callers has had a transport failure.
C3_Witness ==
    \A t \in Callers :
        /\ calls[t].pc = "raised"
        /\ calls[t].error = "ConnectionError"
        /\ calls[t].res = <<>>

\* C4: the request a call issues has the method, URL and payload of the
\* wire table for the call's operation and arguments, and a login request
\* carries the content type application/json+cesr.
C4_RequestMatchesWireTable ==
    \A t \in Callers :
        LET c == calls[t]
        IN  \A i \in 1..Len(c.reqs) :
                /\ Wire(c.reqs[i]) = WireTable(given, c.op, c.args)
                /\ c.op = "login" =>
                      DictGet(c.reqs[i].headers, "Content-Type")
                          = <<"application/json+cesr">>

\* A verify_signed_headers and an add_root_of_trust request are out.
C4_Witness ==
    /\ \E t \in Callers :
          calls[t].op = "verify_signed_headers" /\ calls[t].reqs # <<>>
    /\ \E t \in Callers :
          calls[t].op = "add_root_of_trust" /\ calls[t].reqs # <<>>

\* The calls that have not reached their HTTP request yet.
BeforeRequest == {t \in Callers : calls[t].pc = "request"}

\* C5: a call past its request step has issued exactly one request,
\* however it went on or ended, and a call before it none (so nothing is
\* parsed before the request); the requests issued are as many as the
\* calls that reached the request step.
C5_OneRequestPerCall ==
    /\ \A t \in Callers :
          LET c == calls[t]
          IN  /\ c.pc \in {"idle", "request"} => c.reqs = <<>>
              /\ c.pc \in {"wait", "log_post", "normalize", "returned", "raised"}
                    => Len(c.reqs) = 1
              /\ (Len(c.lines) > 1 \/ c.result # <<>> \/ c.error # "")
                    => Len(c.reqs) = 1
    /\ requests + Cardinality(BeforeRequest) = started

\* Two calls with the same operation and arguments are over, one returned
\* and one failed, and two requests were issued.
C5_Witness ==
    /\ calls["c1"].pc = "returned"
    /\ calls["c2"].pc = "raised"
    /\ calls["c1"].op = calls["c2"].op
    /\ calls["c1"].args = calls["c2"].args
    /\ requests = 2
    /\ started = 2

\* C6: the trace lines change nothing: whenever the network call
\* completed, whatever the body, the adapter method returns the raw
\* response, and the call ends as the facade's own steps alone end it.
C6_LoggingHasNoEffect ==
    \A t \in Callers :
        LET c == calls[t]
        IN  /\ (c.res # <<>> /\ BindingDone(c)) => c.ret = c.res
            /\ (c.res # <<>> /\ Terminal(c)) =>
                  /\ c.error = facade_response(c.res[1]).error
                  /\ c.result = facade_response(c.res[1]).result

\* C7: an adapter call that received a response has written two trace
\* lines: the pre-call line, written before the request went out, and then
\* the post-call line with the parsed body.
C7_TwoTraceLines ==
    \A t \in Callers :
        LET c == calls[t]
        IN  /\ c.pc \in {"request", "wait"} =>
                  c.lines = <<PreCallLine(c.op, c.args)>>
            /\ (c.res # <<>> /\ BindingDone(c)) =>
                  /\ Len(c.lines) = 2
                  /\ c.lines[1] = PreCallLine(c.op, c.args)
                  /\ c.lines[2].payload = c.res[1].text

\* The base address and the endpoint URLs as the constructor's argument
\* fixes them.
C8_Urls ==
    LET a == client.verifier_service_adapter
    IN  /\ client.verifier_base_url = given
        /\ a.verifier_base_url = given
        /\ a.auths_url = given \o "/authorizations/"
        /\ a.presentations_url = given \o "/presentations/"
        /\ a.verify_signed_headers_url = given \o "/request/verify/"
        /\ a.verify_signature_url = given \o "/signature/verify/"
        /\ a.add_rot_url = given \o "/root_of_trust/"

\* C8: in every state the base address of the facade and of the adapter is
\* the constructor's argument and every endpoint URL is that address
\* followed by its path; no step writes any of these fields.
C8_BaseAddressImmutable ==
    /\ []C8_Urls
    /\ [][client' = client /\ given' = given]_vars

\* All calls were made, one has returned and one has failed.
C8_Witness ==
    /\ started = MaxCalls
    /\ calls["c1"].pc = "returned"
    /\ calls["c2"].pc = "raised"

\* The places of the "url" key of an object.
UrlAt(text) ==
    {i \in 2..(Len(text) - 2) : i % 4 = 2 /\ text[i] = "url" /\ text[i + 1] = ":"}

\* What a call holds is its own: its response answers the request made of
\* its own arguments, the adapter's return value is that response, and its
\* result or failure is read off that response.
C9_OwnOutcome ==
    \A t \in Callers :
        LET c == calls[t]
        IN  /\ c.res # <<>> =>
                  /\ Len(c.reqs) = 1
                  /\ Wire(c.reqs[1]) = WireTable(given, c.op, c.args)
                  /\ \A i \in UrlAt(c.res[1].text) :
                        IsMapping(c.res[1].text) =>
                            c.res[1].text[i + 2] = c.reqs[1].url
            /\ c.ret # <<>> => c.ret = c.res
            /\ c.result # <<>> =>
                  /\ c.res # <<>>
                  /\ c.result[1].code = c.res[1].status_code
                  /\ json_dumps(c.result[1].body) = c.res[1].text
                  /\ c.result[1].message = MsgValue(c.res[1].text)
            /\ (Terminal(c) /\ c.res # <<>>) =>
                  (c.pc = "returned" <=> HasMsg(c.res[1].text))

\* A step changes the state of at most one call, and not the client.
C9_Frame ==
    /\ client' = client
    /\ \A t \in Callers :
          calls'[t] # calls[t] =>
              \A u \in Callers \ {t} : calls'[u] = calls[u]

\* C9: with calls interleaved at their steps, each call's outcome is that
\* of its own arguments and of the response to its own request, and no
\* step of one call writes the state of another.
C9_CallsIndependent ==
    /\ []C9_OwnOutcome
    /\ [][C9_Frame]_vars

\* Two calls overlap with different responses: c2 holds a response of the
\* first remote state and is not over, c1 has returned one of the second.
C9_Witness ==
    /\ calls["c1"].pc = "returned"
    /\ calls["c1"].served_at = 1
    /\ calls["c2"].pc = "normalize"
    /\ calls["c2"].served_at = 0
    /\ calls["c1"].result[1].code # calls["c2"].res[1].status_code

\* C10: two check_login calls with the same argument, answered by the
\* remote service in the same state, end alike, with the same code and
\* message when they return; each was answered on a request of its own.
C10_CheckLoginRepeatable ==
    \A t, u \in Callers :
        LET c == calls[t]
            d == calls[u]
        IN  ( /\ t # u
              /\ c.op = "check_login" /\ d.op = "check_login"
              /\ c.args = d.args
              /\ Terminal(c) /\ Terminal(d)
              /\ c.res # <<>> /\ d.res # <<>>
              /\ c.served_at = d.served_at ) =>
                /\ Len(c.reqs) = 1 /\ Len(d.reqs) = 1
                /\ requests >= 2
                /\ c.pc = d.pc
                /\ c.error = d.error
                /\ c.pc = "returned" =>
                      /\ c.result[1].code = d.result[1].code
                      /\ c.result[1].message = d.result[1].message

\* Two check_login calls with the same argument have returned, answered in
\* the same remote state, with a third call made as well.
C10_Witness ==
    /\ calls["c1"].op = "check_login" /\ calls["c2"].op = "check_login"
    /\ calls["c1"].args = calls["c2"].args
    /\ calls["c1"].pc = "returned" /\ calls["c2"].pc = "returned"
    /\ calls["c1"].served_at = calls["c2"].served_at
    /\ started = 3
    /\ requests = 3

====
